---------------------------- MODULE Spec2Model ----------------------------
(***************************************************************************)
(* get_ranked_configs of src/app.py: the constrained spin-lattice sampler.  *)
(*                                                                         *)
(* One call builds, for every seed, a balanced array of spins, shuffles    *)
(* it, lays it out as an Ny x Nx lattice, runs a fixed number of swap      *)
(* iterations with an energy-comparison acceptance rule, records the       *)
(* lattice and its total periodic bond energy, and finally ranks the       *)
(* per-seed results by energy.                                             *)
(*                                                                         *)
(* Numbers.  The couplings come from sliders with step 0.1 and are kept    *)
(* here as integers in tenths (Jx = -10 is the slider's -1.0), so every    *)
(* energy is an integer number of tenths and is computed exactly; IEEE     *)
(* rounding of the float sums is not modelled.  rng.random() is kept in    *)
(* hundredths.  The exponential weights of lines 61-63 are real-valued     *)
(* and are not modelled.                                                   *)
(*                                                                         *)
(* Randomness.  Every draw of the generator (the shuffle, the four site    *)
(* coordinates, the acceptance draw) is a nondeterministic choice over     *)
(* the values the call can return.                                         *)
(***************************************************************************)
EXTENDS Integers, Sequences, FiniteSets

(***************************************************************************)
(* Sizes.  The source's values are in the comments; the model runs the     *)
(* same code on smaller ones.  As in the source, the spin array is         *)
(* shorter than the shape it is reshaped to: 2*18 = 36 < 64 = 8*8 there,   *)
(* 2*HalfSpins < Ny*Nx here.                                               *)
(***************************************************************************)
Nx == 3
\* line 26: Nx = 8 (columns)

Ny == 2
\* line 26: Ny = 8 (rows)

HalfSpins == 2
\* line 33: 18 spins at +1 and 18 at -1

NSeeds == 3
\* line 31: range(12)

Iterations == 2
\* line 37: range(600)

TopK == 2
\* lines 58-59: [:6]

PAcceptBad == 5
\* line 49: 0.05, in hundredths

\* Slider values (lines 13-14, range -2.0 .. 2.0 in steps of 0.1), in tenths.
Couplings == {-10, 0, 10}

\* Values of rng.random() in [0, 1), in hundredths: below 0.05, the
\* threshold itself, and above it.
Uniform == {0, 5, 6}

VARIABLES
    Jx, Jy,            \* the arguments of the call
    pc,                \* the position of the call
    seed,              \* the loop variable of line 31
    spins,             \* the 1-D array of lines 33-34
    grid,              \* the lattice of line 35 (<<>> while unbound)
    it,                \* iterations of the loop of line 37 completed
    r1, c1, r2, c2,    \* the drawn coordinates of lines 38-39 (-1: none)
    e_before, e_after, \* lines 45 and 47
    u,                 \* the value of rng.random() of line 49 (-1: not drawn)
    configs, energies, \* the lists of lines 27-28
    indices,           \* line 57
    top_energies,      \* line 58
    top_configs,       \* line 59
    prior,             \* history: the lattice the current iteration started on
    last               \* history: how the last completed iteration ended

vars == <<Jx, Jy, pc, seed, spins, grid, it, r1, c1, r2, c2, e_before,
          e_after, u, configs, energies, indices, top_energies, top_configs,
          prior, last>>

Rows == 0 .. (Ny - 1)
Cols == 0 .. (Nx - 1)
Spin == {1, -1}

--------------------------------------------------------------------------
(* Arrays *)

Count(s, v) == Cardinality({i \in DOMAIN s : s[i] = v})

\* line 33: np.array([1]*18 + [-1]*18)
InitialSpins == [i \in 1 .. (2 * HalfSpins) |-> IF i <= HalfSpins THEN 1 ELSE -1]

\* line 34: rng.shuffle permutes the array in place; any arrangement of the
\* same multiset can result.
Shuffled(s) ==
    {t \in [DOMAIN s -> Spin] : \A v \in Spin : Count(t, v) = Count(s, v)}

\* line 35: ndarray.reshape succeeds only when the sizes agree.
ReshapeFits(s, rows, cols) == Len(s) = rows * cols

\* line 35: row-major layout of the 1-D array.
Reshaped(s, rows, cols) ==
    [r \in 0 .. (rows - 1) |-> [c \in 0 .. (cols - 1) |-> s[r * cols + c + 1]]]

\* The 1-D array a lattice is a view of (grid shares its memory with spins).
Flatten(g) == [i \in 1 .. (Ny * Nx) |-> g[(i - 1) \div Nx][(i - 1) % Nx]]

\* Number of sites of lattice g holding v.
Sites(g, v) == Cardinality({<<r, c>> \in Rows \X Cols : g[r][c] = v})

--------------------------------------------------------------------------
(* Energies *)

\* lines 42-43: the four wrapped neighbour coordinates of (r, c).
Right(c) == (c + 1) % Nx
Left(c) == (c - 1) % Nx
Down(r) == (r + 1) % Ny
Up(r) == (r - 1) % Ny

\* get_local_e with the couplings on the wrong axes: Jx on the row
\* neighbours, Jy on the column neighbours.
GetLocalEAxesSwapped(g, r, c, val) ==
    Jx * val * (g[Down(r)][c] + g[Up(r)][c])
    + Jy * val * (g[r][Right(c)] + g[r][Left(c)])

\* lines 41-43: get_local_e, a closure over Jx, Jy and the lattice.
GetLocalE(g, r, c, val) ==
    Jx * val * (g[r][Right(c)] + g[r][Left(c)])
    + Jy * val * (g[Down(r)][c] + g[Up(r)][c])

\* np.sum(grid * np.roll(grid, -1, axis=1)) over the first n sites in flat
\* order: np.roll(grid, -1, axis=1)[r, c] is grid[r, (c+1) % Nx].
RECURSIVE SumRollCols(_, _)
SumRollCols(g, n) ==
    IF n = 0 THEN 0
    ELSE LET r == (n - 1) \div Nx
             c == (n - 1) % Nx
         IN  g[r][c] * g[r][(c + 1) % Nx] + SumRollCols(g, n - 1)

\* np.sum(grid * np.roll(grid, -1, axis=0)) over the first n sites in flat
\* order: np.roll(grid, -1, axis=0)[r, c] is grid[(r+1) % Ny, c].
RECURSIVE SumRollRows(_, _)
SumRollRows(g, n) ==
    IF n = 0 THEN 0
    ELSE LET r == (n - 1) \div Nx
             c == (n - 1) % Nx
         IN  g[r][c] * g[(r + 1) % Ny][c] + SumRollRows(g, n - 1)

\* lines 52-53
TotalE(g) == Jx * SumRollCols(g, Ny * Nx) + Jy * SumRollRows(g, Ny * Nx)

--------------------------------------------------------------------------
(* One iteration of the loop of line 37 *)

\* The test of line 40 made on the coordinates instead of the values.
UnequalSites(g, a1, b1, a2, b2) == <<a1, b1>> # <<a2, b2>>

\* line 40
Unequal(g, a1, b1, a2, b2) == g[a1][b1] # g[a2][b2]

\* lines 46 and 50: the simultaneous assignment exchanging two sites.
Exchange(g, a1, b1, a2, b2) ==
    [r \in Rows |-> [c \in Cols |->
        IF r = a1 /\ c = b1 THEN g[a2][b2]
        ELSE IF r = a2 /\ c = b2 THEN g[a1][b1]
        ELSE g[r][c]]]

\* The comparison of line 49 with a tie counted as a rise.
WorseOrTie(ea, eb) == ea >= eb

\* line 49, left operand
Worse(ea, eb) == ea > eb

\* line 49, right operand
Rejects(d) == d > PAcceptBad

--------------------------------------------------------------------------
(* The call *)

NoLocals ==
    /\ r1 = -1 /\ c1 = -1 /\ r2 = -1 /\ c2 = -1
    /\ e_before = 0 /\ e_after = 0 /\ u = -1

NoResult ==
    /\ indices = <<>> /\ top_energies = <<>> /\ top_configs = <<>>

\* lines 25-28: the call has its arguments and two empty lists.
Init ==
    /\ Jx \in Couplings /\ Jy \in Couplings
    /\ pc = "for_seed"
    /\ seed = 0
    /\ spins = <<>> /\ grid = <<>> /\ prior = <<>> /\ last = "none"
    /\ it = 0
    /\ NoLocals
    /\ configs = <<>> /\ energies = <<>>
    /\ NoResult

\* lines 31-33: the next seed's generator and its ordered array.
NewSeed ==
    /\ pc = "for_seed"
    /\ seed < NSeeds
    /\ spins' = InitialSpins
    /\ pc' = "shuffle"
    /\ UNCHANGED <<Jx, Jy, seed, grid, it, r1, c1, r2, c2, e_before, e_after,
                   u, configs, energies, indices, top_energies, top_configs,
                   prior, last>>

\* line 34
Shuffle ==
    /\ pc = "shuffle"
    /\ spins' \in Shuffled(spins)
    /\ pc' = "reshape"
    /\ UNCHANGED <<Jx, Jy, seed, grid, it, r1, c1, r2, c2, e_before, e_after,
                   u, configs, energies, indices, top_energies, top_configs,
                   prior, last>>

\* line 35: reshape raises ValueError when the sizes disagree; nothing in
\* the call catches it.
Reshape ==
    /\ pc = "reshape"
    /\ IF ReshapeFits(spins, Ny, Nx)
       THEN /\ grid' = Reshaped(spins, Ny, Nx)
            /\ it' = 0
            /\ pc' = "loop"
       ELSE /\ pc' = "raised"
            /\ UNCHANGED <<grid, it>>
    /\ UNCHANGED <<Jx, Jy, seed, spins, r1, c1, r2, c2, e_before, e_after,
                   u, configs, energies, indices, top_energies, top_configs,
                   prior, last>>

\* lines 37-39: one more iteration starts and draws its two sites.
Draw ==
    /\ pc = "loop"
    /\ it < Iterations
    /\ \E a1 \in 0 .. (Ny - 1), b1 \in 0 .. (Nx - 1),
          a2 \in 0 .. (Ny - 1), b2 \in 0 .. (Nx - 1) :
          /\ r1' = a1 /\ c1' = b1
          /\ r2' = a2 /\ c2' = b2
    /\ e_before' = 0 /\ e_after' = 0 /\ u' = -1
    /\ prior' = grid
    /\ last' = "none"
    /\ pc' = "drawn"
    /\ UNCHANGED <<Jx, Jy, seed, spins, grid, it, configs, energies, indices,
                   top_energies, top_configs>>

\* line 40, condition false: the iteration ends here.
Skip ==
    /\ pc = "drawn"
    /\ ~Unequal(grid, r1, c1, r2, c2)
    /\ it' = it + 1
    /\ r1' = -1 /\ c1' = -1 /\ r2' = -1 /\ c2' = -1
    /\ last' = "skipped"
    /\ pc' = "loop"
    /\ UNCHANGED <<Jx, Jy, seed, spins, grid, e_before, e_after, u, configs,
                   energies, indices, top_energies, top_configs, prior>>

\* lines 40-47, condition true: the energy before, the swap, the energy
\* after.  The lattice is a view of spins, which changes with it.
Propose ==
    /\ pc = "drawn"
    /\ Unequal(grid, r1, c1, r2, c2)
    /\ e_before' = GetLocalE(grid, r1, c1, grid[r1][c1])
                   + GetLocalE(grid, r2, c2, grid[r2][c2])
    /\ grid' = Exchange(grid, r1, c1, r2, c2)
    /\ e_after' = GetLocalE(grid', r1, c1, grid'[r1][c1])
                  + GetLocalE(grid', r2, c2, grid'[r2][c2])
    /\ spins' = Flatten(grid')
    /\ pc' = "swapped"
    /\ UNCHANGED <<Jx, Jy, seed, it, r1, c1, r2, c2, u, configs, energies,
                   indices, top_energies, top_configs, prior, last>>

\* lines 49-50: "and" draws rng.random() only when the energy rose.
Decide ==
    /\ pc = "swapped"
    /\ IF Worse(e_after, e_before)
       THEN \E d \in Uniform :
               /\ u' = d
               /\ grid' = IF Rejects(d)
                          THEN Exchange(grid, r1, c1, r2, c2)
                          ELSE grid
       ELSE UNCHANGED <<u, grid>>
    /\ spins' = Flatten(grid')
    /\ it' = it + 1
    /\ r1' = -1 /\ c1' = -1 /\ r2' = -1 /\ c2' = -1
    /\ e_before' = 0 /\ e_after' = 0
    /\ prior' = grid'
    /\ last' = IF grid' = grid THEN "kept" ELSE "reverted"
    /\ pc' = "loop"
    /\ UNCHANGED <<Jx, Jy, seed, configs, energies, indices, top_energies,
                   top_configs>>

\* lines 52-55: the loop is exhausted; the seed's lattice (a copy) and
\* its total energy are recorded and the next seed follows.
Collect ==
    /\ pc = "loop"
    /\ it = Iterations
    /\ configs' = Append(configs, grid)
    /\ energies' = Append(energies, TotalE(grid))
    /\ seed' = seed + 1
    /\ pc' = "for_seed"
    /\ UNCHANGED <<Jx, Jy, spins, grid, it, r1, c1, r2, c2, e_before,
                   e_after, u, indices, top_energies, top_configs, prior, last>>

\* argsort in descending order.
ArgSortsDescending(e) ==
    {p \in [1 .. Len(e) -> 0 .. (Len(e) - 1)] :
        /\ \A i, j \in 1 .. Len(e) : i # j => p[i] # p[j]
        /\ \A i \in 1 .. (Len(e) - 1) : e[p[i] + 1] >= e[p[i + 1] + 1]}

\* line 57: np.argsort (default kind, not stable): any ordering of the
\* seed numbers 0 .. n-1 that puts the energies in ascending order.
ArgSorts(e) ==
    {p \in [1 .. Len(e) -> 0 .. (Len(e) - 1)] :
        /\ \A i, j \in 1 .. Len(e) : i # j => p[i] # p[j]
        /\ \A i \in 1 .. (Len(e) - 1) : e[p[i] + 1] <= e[p[i + 1] + 1]}

\* the slice [:k]
Take(s, k) == [i \in 1 .. (IF k < Len(s) THEN k ELSE Len(s)) |-> s[i]]

\* line 58: np.array(energies)[indices][:6]
TopEnergies(e, p) == Take([i \in 1 .. Len(p) |-> e[p[i] + 1]], TopK)

\* line 59: [configs[i] for i in indices[:6]]
TopConfigs(cf, p) == [i \in 1 .. Len(Take(p, TopK)) |-> cf[p[i] + 1]]

\* lines 57-59: all seeds are done.
Rank ==
    /\ pc = "for_seed"
    /\ seed = NSeeds
    /\ \E p \in ArgSorts(energies) :
          /\ indices' = p
          /\ top_energies' = TopEnergies(energies, p)
          /\ top_configs' = TopConfigs(configs, p)
    /\ pc' = "ranked"
    /\ UNCHANGED <<Jx, Jy, seed, spins, grid, it, r1, c1, r2, c2, e_before,
                   e_after, u, configs, energies, prior, last>>

\* lines 61-65: the weights (real-valued exponentials, not modelled) and
\* the return.
Return ==
    /\ pc = "ranked"
    /\ pc' = "returned"
    /\ UNCHANGED <<Jx, Jy, seed, spins, grid, it, r1, c1, r2, c2, e_before,
                   e_after, u, configs, energies, indices, top_energies,
                   top_configs, prior, last>>

\* The call, every step of it.
Next ==
    \/ NewSeed
    \/ Shuffle
    \/ Reshape
    \/ Draw
    \/ Skip
    \/ Propose
    \/ Decide
    \/ Collect
    \/ Rank
    \/ Return

Spec == Init /\ [][Next]_vars

--------------------------------------------------------------------------
(* The generator: lines 25-35 *)

(***************************************************************************)
(* From Init the call never gets past line 35: the array has 2*HalfSpins   *)
(* elements, the shape Ny*Nx, and Reshape raises.  SpecGenerate is Spec     *)
(* with the steps that Init therefore never enables left out; it has the   *)
(* same reachable states.                                                  *)
(***************************************************************************)
NextGenerate ==
    \/ NewSeed
    \/ Shuffle
    \/ Reshape

SpecGenerate == Init /\ [][NextGenerate]_vars

--------------------------------------------------------------------------
(* The annealing loop: lines 37-50 *)

(***************************************************************************)
(* From Init the loop is not reached (Reshape raises).  SpecAnneal runs    *)
(* the loop's own code on the lattices it is written for: every Ny x Nx    *)
(* lattice with half of its sites at +1.                                   *)
(***************************************************************************)

\* The lattices of shape Ny x Nx with (as near as the site count allows)
\* half of the sites at +1.
HalfLattices ==
    {g \in [Rows -> [Cols -> Spin]] : Sites(g, 1) = (Ny * Nx) \div 2}

\* Coupling pairs <<Jx, Jy>>, in tenths: the sliders' defaults (-1.0, 1.0),
\* and the opposite signs with unequal magnitudes (0.3, -2.0).
AnnealCouplings == {<<-10, 10>>, <<3, -20>>}

\* The loop of line 37 entered on any such lattice.
InitAnneal ==
    /\ \E j \in AnnealCouplings : Jx = j[1] /\ Jy = j[2]
    /\ pc = "loop"
    /\ seed = 0
    /\ grid \in HalfLattices
    /\ spins = Flatten(grid)
    /\ prior = grid /\ last = "none"
    /\ it = 0
    /\ NoLocals
    /\ configs = <<>> /\ energies = <<>>
    /\ NoResult

NextAnneal ==
    \/ Draw
    \/ Skip
    \/ Propose
    \/ Decide

SpecAnneal == InitAnneal /\ [][NextAnneal]_vars

--------------------------------------------------------------------------
(* The ranking: lines 52-59 *)

(***************************************************************************)
(* SpecRank runs the recording and the ranking of the per-seed results     *)
(* on their own: each seed's generation and loop are one step, ending on   *)
(* one of a few sample lattices.                                           *)
(***************************************************************************)

\* Lattices a seed's loop may end on: striped by row, by column,
\* checkerboard, and split in two halves.
SampleGrids ==
    { [r \in Rows |-> [c \in Cols |-> IF r % 2 = 0 THEN 1 ELSE -1]],
      [r \in Rows |-> [c \in Cols |-> IF c % 2 = 0 THEN 1 ELSE -1]],
      [r \in Rows |-> [c \in Cols |-> IF (r + c) % 2 = 0 THEN 1 ELSE -1]],
      [r \in Rows |-> [c \in Cols |->
          IF r * Nx + c < (Ny * Nx) \div 2 THEN 1 ELSE -1]] }

\* lines 32-50 taken as one step: the seed's loop has ended on some lattice.
AnnealedSeed ==
    /\ pc = "for_seed"
    /\ seed < NSeeds
    /\ grid' \in SampleGrids
    /\ spins' = Flatten(grid')
    /\ it' = Iterations
    /\ pc' = "loop"
    /\ UNCHANGED <<Jx, Jy, seed, r1, c1, r2, c2, e_before, e_after, u,
                   configs, energies, indices, top_energies, top_configs,
                   prior, last>>

NextRank ==
    \/ AnnealedSeed
    \/ Collect
    \/ Rank
    \/ Return

SpecRank == Init /\ [][NextRank]_vars

--------------------------------------------------------------------------
(* Properties of the generator, checked under SpecGenerate *)

\* C1: the array a seed's generation lays out as the Ny x Nx lattice has
\* exactly Ny*Nx sites, half of them at +1 and half at -1, and the lattice
\* keeps these counts in every state of the annealing loop.
C1_BalancedLatticeOfShape ==
    /\ pc = "reshape" =>
          /\ Len(spins) = Ny * Nx
          /\ Count(spins, 1) = (Ny * Nx) \div 2
          /\ Count(spins, -1) = (Ny * Nx) \div 2
    /\ pc \in {"loop", "drawn", "swapped"} =>
          /\ Sites(grid, 1) = (Ny * Nx) \div 2
          /\ Sites(grid, -1) = (Ny * Nx) \div 2

C5_RunsFullBudgetAndReturns ==
    /\ pc \in {"raised", "returned"} =>
          pc = "returned" /\ Len(configs) = NSeeds
    /\ it <= Iterations

\* C9: a call that fails does so before any array or lattice has been
\* created or mutated.
C9_FailsBeforeAnyLattice ==
    pc = "raised" => spins = <<>> /\ grid = <<>> /\ configs = <<>>

--------------------------------------------------------------------------
(* Properties of one iteration, checked under SpecAnneal *)

TheSwap == Exchange(prior, r1, c1, r2, c2)

\* C2: on two unequal-spin sites the swap is performed first; when the
\* energy after it is less than or equal to the energy before, the swapped
\* lattice is kept whatever the random stream holds (no draw is made); when
\* it is greater, the lattice is the swapped one if the uniform draw is
\* <= 0.05 and exactly the lattice from before the swap if it is > 0.05.
C2_AcceptanceRule ==
    [][pc = "swapped" =>
          /\ grid = TheSwap /\ grid # prior
          /\ e_after <= e_before => grid' = TheSwap /\ u' = -1
          /\ e_after > e_before =>
                /\ u' \in Uniform
                /\ u' <= PAcceptBad => grid' = TheSwap
                /\ u' > PAcceptBad => grid' = prior
          /\ pc' = "loop" /\ it' = it + 1]_vars

\* A rise in energy was drawn against and the swap was undone.
C2_Witness ==
    /\ pc = "loop" /\ it > 0
    /\ last = "reverted" /\ u > PAcceptBad

\* C3: an iteration whose two drawn sites hold equal spins (the same site
\* drawn twice included) is skipped: no site value is modified, the total
\* bond energy is unchanged, and the iteration is over.
C3_EqualSpinsSkip ==
    [][(pc = "drawn" /\ grid[r1][c1] = grid[r2][c2]) =>
          /\ grid' = grid
          /\ spins' = spins
          /\ TotalE(grid') = TotalE(grid)
          /\ pc' = "loop" /\ it' = it + 1]_vars

\* An iteration has been skipped.
C3_Witness ==
    /\ pc = "loop" /\ it > 0
    /\ last = "skipped" /\ grid = prior

\* C10: for unequal-spin sites, the difference of the local energies after
\* and before the swap equals the change of the total periodic bond energy,
\* so comparing the local energies decides as the total energy would.
C10_LocalDeltaIsTotalDelta ==
    [][(pc = "drawn" /\ pc' = "swapped") =>
          LET total_before == TotalE(grid)
              total_after == TotalE(grid')
          IN  /\ e_after' - e_before' = total_after - total_before
              /\ (e_after' > e_before') <=> (total_after > total_before)]_vars

\* Two sites that are periodic neighbours of each other (the last and the
\* first column of a row) have been swapped and the energy changed.
C10_Witness ==
    /\ pc = "swapped"
    /\ r1 = r2 /\ c1 = Nx - 1 /\ c2 = 0
    /\ e_after # e_before

--------------------------------------------------------------------------
(* Properties of the ranking, checked under SpecRank *)

Min(S) == CHOOSE x \in S : \A y \in S : x <= y

\* C6: the ranking returns exactly TopK configurations, in order of
\* non-decreasing total bond energy, each the final lattice of a distinct
\* seed, the first with the minimum energy over all seeds.
C6_RankedTopK ==
    pc \in {"ranked", "returned"} =>
        /\ Len(configs) = NSeeds /\ Len(energies) = NSeeds
        /\ Len(top_configs) = TopK /\ Len(top_energies) = TopK
        /\ \A i \in 1 .. (TopK - 1) : top_energies[i] <= top_energies[i + 1]
        /\ \A i \in 1 .. TopK :
              /\ indices[i] \in 0 .. (NSeeds - 1)
              /\ top_configs[i] = configs[indices[i] + 1]
              /\ top_energies[i] = energies[indices[i] + 1]
              /\ top_energies[i] = TotalE(top_configs[i])
        /\ \A i, j \in 1 .. TopK : i # j => indices[i] # indices[j]
        /\ top_energies[1] = Min({energies[k] : k \in 1 .. NSeeds})
        /\ \A k \in (TopK + 1) .. NSeeds :
              top_energies[TopK] <= energies[indices[k] + 1]

\* The call returned a ranking of seeds whose energies were collected out
\* of order and with a tie among them.
C6_Witness ==
    /\ pc = "returned"
    /\ energies[1] > energies[NSeeds]
    /\ \E i, j \in 1 .. NSeeds : i # j /\ energies[i] = energies[j]

==========================================================================
